---- MODULE Spec2Model ----
(***************************************************************************)
(* PostgresAdapter (core/required/db/adapters/postgres8.js): admission     *)
(* against a bounded pg.Pool, single queries, explicit transactions and    *)
(* batch transactions.                                                     *)
(*                                                                         *)
(* A text (SQL, message) is a sequence of symbols; a JavaScript string     *)
(* given to transaction() is a sequence of one-character symbols.          *)
(* The pool, the driver client, async.series and the base adapter's        *)
(* queryClient / beginClient are collaborators: each completion they       *)
(* deliver is a separate step, chosen by the environment.                  *)
(***************************************************************************)
EXTENDS Integers, Sequences, FiniteSets, TLC

\* this._config.max as configured for the model (the code's default is 100).
max == 2
\* Longest statement list handed to transaction().
MaxBatch == 2
\* Longest string handed to transaction() where every string is tried.
MaxStrLen == 4
\* Longest orderByArray handed to generateOrderByClause().
MaxSpecs == 2
\* Number of times generateOrderByClause() is called on the same arguments.
MaxCalls == 2

VARIABLES
  clients,   \* pool._clients: connections the pool has open or is opening
  idle,      \* pool._idle: open connections not checked out
  ops,       \* one record per call slot: the call, its position, what it did
  closed,    \* close() has been called
  ending,    \* pool.ending: pool.end() has been called
  ob         \* the arguments of generateOrderByClause and what it returned

vars == <<clients, idle, ops, closed, ending, ob>>

\* Two callers share the adapter; each makes one call after another.
Ops == {1, 2}

----------------------------------------------------------------------------
\* Values passed to callbacks

Null == [kind |-> "null", of |-> <<>>]
Error(message) == [kind |-> "error", of |-> message]
ResultOf(text) == [kind |-> "result", of |-> text]
ErrorOf(text) == [kind |-> "error", of |-> <<"failed">> \o text]

PoolIsFull == Error(<<"Pool is full">>)
ConnectError == Error(<<"connect failed">>)

BEGIN == <<"BEGIN">>
COMMIT == <<"COMMIT">>
ROLLBACK == <<"ROLLBACK">>

\* One entry of a call's trace: what was invoked, with which text, on which
\* connection (0 when no connection is involved).
Undefined == <<"undefined">>
EvP(e, t, c, p) == [ev |-> e, text |-> t, client |-> c, params |-> p]
Ev(e, t, c) == EvP(e, t, c, Undefined)

Count(log, e) == Cardinality({i \in 1..Len(log) : log[i].ev = e})
CountText(log, e, t) ==
  Cardinality({i \in 1..Len(log) : log[i].ev = e /\ log[i].text = t})
Has(log, e) == \E i \in 1..Len(log) : log[i].ev = e
First(log, e) == CHOOSE i \in 1..Len(log) :
                   log[i].ev = e /\ \A j \in 1..(i - 1) : log[j].ev # e

RECURSIVE SelectEv(_, _)
SelectEv(log, e) ==
  IF log = <<>> THEN <<>>
  ELSE (IF Head(log).ev = e THEN <<Head(log).text>> ELSE <<>>)
         \o SelectEv(Tail(log), e)

----------------------------------------------------------------------------
\* The pool (pg.Pool) as the adapter uses it

\* _isFull() comparing with > instead of >=
isFull_lax == Cardinality(clients) > max

\* pool._isFull(): the pool holds max clients, checked out or idle
isFull == Cardinality(clients) >= max

Min(S) == CHOOSE x \in S : \A y \in S : x <= y

\* pool.connect(): an idle client is handed out, else a new one is opened;
\* a pool that is ending hands out none (0)
connectClient ==
  IF ending THEN 0
  ELSE IF idle # {} THEN Min(idle)
  ELSE Min({i \in 1..(Cardinality(clients) + 1) : i \notin clients})

taken(evs) ==
  {evs[i].client : i \in {j \in 1..Len(evs) : evs[j].ev = "connect"}} \ {0}
released(evs) ==
  {evs[i].client : i \in {j \in 1..Len(evs) : evs[j].ev = "complete"}} \ {0}

----------------------------------------------------------------------------
\* Call records

Fresh == [kind |-> "none", pc |-> "idle", outcome |-> "none",
          call |-> [argc |-> 0], client |-> 0, pending |-> 0,
          queries |-> <<>>, k |-> 0, results |-> <<>>, txnErr |-> Null,
          log |-> <<>>, cb |-> <<>>, thrown |-> Null]

Log(r, evs) == [r EXCEPT !.log = @ \o evs]
Finish(r, outcome) == [r EXCEPT !.pc = "done", !.outcome = outcome]
Throw(r, e, outcome) == [r EXCEPT !.pc = "done", !.outcome = outcome, !.thrown = e]

\* callback(...args): the caller's completion handler
callback(r, args) ==
  [r EXCEPT !.log = @ \o <<Ev("callback", <<>>, 0)>>, !.cb = Append(@, args)]

\* complete(): the release action pool.connect handed over with client c;
\* with a failed acquisition there is no client (c = 0) and it releases nothing
complete(r, c) == Log(r, <<Ev("complete", <<>>, c)>>)

\* admit without the return after the rejection: the call goes on to connect
admit_noReturn(r, full, c) ==
  LET r1 == Log(r, <<Ev("_isFull", <<IF full THEN "full" ELSE "free">>, 0)>>)
      r2 == IF full THEN callback(r1, <<PoolIsFull>>) ELSE r1
  IN  [Log(r2, <<Ev("connect", <<>>, c)>>) EXCEPT !.pc = "connect", !.pending = c]

\* this.pool._isFull() followed by the rejection or by this.pool.connect(...)
admit(r, full, c) ==
  LET r1 == Log(r, <<Ev("_isFull", <<IF full THEN "full" ELSE "free">>, 0)>>)
  IN  IF full
      THEN Finish(callback(r1, <<PoolIsFull>>), "full")
      ELSE [Log(r1, <<Ev("connect", <<>>, c)>>) EXCEPT
              !.pc = "connect", !.pending = c]

----------------------------------------------------------------------------
\* query(query, params, callback)

QueryCalls ==
  { [argc |-> 1, query |-> <<"q">>, params |-> "undefined", callback |-> "undefined"],
    [argc |-> 2, query |-> <<"q">>, params |-> "array", callback |-> "undefined"],
    [argc |-> 3, query |-> <<"q">>, params |-> "object", callback |-> "function"],
    [argc |-> 3, query |-> <<"q">>, params |-> "array", callback |-> "string"],
    [argc |-> 3, query |-> <<"q">>, params |-> "array", callback |-> "function"] }

queryValidate(call) ==
  IF call.argc < 3 THEN Error(<<".query requires 3 arguments">>)
  ELSE IF call.params # "array" THEN Error(<<"params must be a valid array">>)
  ELSE IF call.callback # "function" THEN Error(<<"Callback must be a function">>)
  ELSE Null

\* query with the admission check ahead of the validation
query_admitFirst(r, call, full, c) ==
  LET r0 == [r EXCEPT !.kind = "query", !.call = call]
  IN  IF full
      THEN admit(r0, full, c)
      ELSE IF queryValidate(call) # Null
           THEN Throw(r0, queryValidate(call), "invalid")
           ELSE admit(r0, full, c)

query(r, call, full, c) ==
  LET r0 == [r EXCEPT !.kind = "query", !.call = call]
  IN  IF queryValidate(call) # Null
      THEN Throw(r0, queryValidate(call), "invalid")
      ELSE admit(r0, full, c)

queryConnectErr(r) ==
  LET r1 == Log(r, <<Ev("error", ConnectError.of, 0)>>)
  IN  Finish(callback(complete(r1, 0), <<ConnectError>>), "connect_error")

\* this.queryClient(client, query, params, ...): the collaborator either
\* starts the statement or throws out of the connect callback
queryConnectOk(r, throws) ==
  LET r1 == [r EXCEPT !.client = r.pending]
      r2 == Log(r1, <<EvP("issue", r.call.query, r.pending, <<>>)>>)
  IN  IF throws
      THEN Throw(r1, ErrorOf(r.call.query), "throw")
      ELSE [r2 EXCEPT !.pc = "query"]

queryClientDone(r, ok) ==
  LET args == IF ok THEN <<Null, ResultOf(r.call.query)>>
              ELSE <<ErrorOf(r.call.query)>>
      r1 == Log(r, <<Ev(IF ok THEN "ok" ELSE "failed", r.call.query, r.client)>>)
  IN  Finish(callback(complete(r1, r.client), args),
             IF ok THEN "success" ELSE "statement_error")

----------------------------------------------------------------------------
\* createTransaction(callback)

newTransaction(client, release) ==
  [kind |-> "Transaction", of |-> <<>>, client |-> client, complete |-> release]

createTransaction(r, full, c) ==
  admit([r EXCEPT !.kind = "createTransaction"], full, c)

createTransactionConnectErr(r) ==
  Finish(callback(complete(r, 0), <<ConnectError>>), "connect_error")

\* this.beginClient(client, ...)
createTransactionConnectOk(r) ==
  [Log(r, <<Ev("issue", BEGIN, r.pending)>>) EXCEPT
     !.client = r.pending, !.pc = "begin"]

\* beginClientDone releasing the connection of the handle it returns
beginClientDone_releases(r, ok) ==
  LET r1 == Log(r, <<Ev(IF ok THEN "ok" ELSE "failed", BEGIN, r.client)>>)
  IN  IF ok
      THEN Finish(callback(complete(r1, r.client),
                           <<Null, newTransaction(r.client, r.client)>>),
                  "success")
      ELSE Finish(callback(complete(r1, r.client), <<ErrorOf(BEGIN)>>),
                  "begin_error")

beginClientDone(r, ok) ==
  LET r1 == Log(r, <<Ev(IF ok THEN "ok" ELSE "failed", BEGIN, r.client)>>)
  IN  IF ok
      THEN Finish(callback(r1, <<Null, newTransaction(r.client, r.client)>>),
                  "success")
      ELSE Finish(callback(complete(r1, r.client), <<ErrorOf(BEGIN)>>),
                  "begin_error")

----------------------------------------------------------------------------
\* transaction(preparedArray, callback)

\* preparedArray.split(';')
RECURSIVE split(_)
split(str) ==
  IF \A i \in 1..Len(str) : str[i] # ";"
  THEN <<str>>
  ELSE LET i == CHOOSE j \in 1..Len(str) :
                  str[j] = ";" /\ \A m \in 1..(j - 1) : str[m] # ";"
       IN  <<SubSeq(str, 1, i - 1)>> \o split(SubSeq(str, i + 1, Len(str)))

\* statementsOf without the filter: empty fragments become statements too
RECURSIVE statementsOf_keepEmpty(_)
statementsOf_keepEmpty(fragments) ==
  IF fragments = <<>> THEN <<>>
  ELSE << <<Head(fragments)>> >> \o statementsOf_keepEmpty(Tail(fragments))

\* .filter(v => !!v).map(v => [v])
RECURSIVE statementsOf(_)
statementsOf(fragments) ==
  IF fragments = <<>> THEN <<>>
  ELSE (IF Head(fragments) # <<>> THEN << <<Head(fragments)>> >> ELSE <<>>)
         \o statementsOf(Tail(fragments))

\* The i-th statement of a batch, [sql] or [sql, params]: every second one
\* carries a parameter list
Statement(i) ==
  IF i % 2 = 1 THEN << <<"S", ToString(i)>> >>
  ELSE << <<"S", ToString(i)>>, <<"p">> >>

\* [S1, ..., Sn]
Batch(n) == [i \in 1..n |-> Statement(i)]

\* Every string of at most n characters
Chars == {"a", "b", ";"}
RECURSIVE Strings(_)
Strings(n) ==
  IF n = 0 THEN {<<>>}
  ELSE LET shorter == Strings(n - 1)
       IN  shorter \cup {Append(str, ch) : str \in shorter, ch \in Chars}

\* The strings tried next to the arrays: the empty one and one with no
\* statement in it (SpecStrings tries every string)
StringInputs == { <<>>, <<";">> }

TransactionCalls ==
  { [preparedArray |-> [type |-> "array", val |-> Batch(n)], callback |-> "function"] :
      n \in 0..MaxBatch }
  \cup
  { [preparedArray |-> [type |-> "string", val |-> str], callback |-> "function"] :
      str \in StringInputs }
  \cup
  { [preparedArray |-> [type |-> "array", val |-> Batch(1)], callback |-> "undefined"] }

sqlOf(queryData) == queryData[1]
paramsOf(queryData) == IF Len(queryData) >= 2 THEN queryData[2] ELSE Undefined

\* A callback that is not a function is replaced by a no-op, which is then
\* what `callback` invokes for this call (call.callback tells them apart).
transaction(r, call, full, c) ==
  LET p == call.preparedArray
      r0 == [r EXCEPT !.kind = "transaction", !.call = call]
  IN  IF Len(p.val) = 0
      THEN Throw(r0, Error(<<"Must give valid array of statements">>), "invalid")
      ELSE admit([r0 EXCEPT !.queries =
                    IF p.type = "string" THEN statementsOf(split(p.val))
                    ELSE p.val],
                 full, c)

\* transactionConnectErr returning without reporting the error
transactionConnectErr_silent(r) ==
  LET r1 == Log(r, <<Ev("error", ConnectError.of, 0)>>)
  IN  Finish(complete(r1, 0), "connect_error")

transactionConnectErr(r) ==
  LET r1 == Log(r, <<Ev("error", ConnectError.of, 0)>>)
  IN  Finish(complete(callback(r1, <<ConnectError>>), 0), "connect_error")

\* the tasks handed to async.series: BEGIN, then one per statement
tasks(r) == <<BEGIN>> \o [i \in 1..Len(r.queries) |-> sqlOf(r.queries[i])]

\* a task of the series starts: client.query(...) on the batch's client
runTask(r, i) ==
  IF i = 1
  THEN Log(r, <<Ev("issue", BEGIN, r.client)>>)
  ELSE Log(r, <<EvP("log", sqlOf(r.queries[i - 1]), 0,
                    IF paramsOf(r.queries[i - 1]) = Undefined THEN <<>>
                    ELSE paramsOf(r.queries[i - 1])),
                EvP("issue", sqlOf(r.queries[i - 1]), r.client,
                    paramsOf(r.queries[i - 1]))>>)

transactionConnectOk(r) ==
  LET r1 == [r EXCEPT !.client = r.pending, !.k = 1, !.pc = "series"]
  IN  runTask(Log(r1, <<Ev("info", <<"Transaction started...">>, 0)>>), 1)

\* seriesFailed releasing the client before ROLLBACK is sent on it
seriesFailed_releasesFirst(r, txnErr) ==
  [Log(r, <<Ev("error", txnErr.of, 0),
            Ev("info", <<"Rollback started...">>, 0),
            Ev("complete", <<>>, r.client),
            Ev("issue", ROLLBACK, r.client)>>) EXCEPT
     !.txnErr = txnErr, !.pc = "rollback"]

\* async.series final callback with an error: ROLLBACK is started
seriesFailed(r, txnErr) ==
  [Log(r, <<Ev("error", txnErr.of, 0),
            Ev("info", <<"Rollback started...">>, 0),
            Ev("issue", ROLLBACK, r.client)>>) EXCEPT
     !.txnErr = txnErr, !.pc = "rollback"]

\* seriesSucceeded sending COMMIT before the hook is told
seriesSucceeded_hookLate(r) ==
  [Log(r, <<Ev("issue", COMMIT, r.client),
            Ev("info", <<"Commit started...">>, 0)>>) EXCEPT !.pc = "commit"]

\* async.series final callback without error: COMMIT is started
seriesSucceeded(r) ==
  [Log(r, <<Ev("info", <<"Commit started...">>, 0),
            Ev("issue", COMMIT, r.client)>>) EXCEPT !.pc = "commit"]

\* taskDone running the remaining tasks after a failure before rolling back
taskDone_keepsGoing(r, ok) ==
  LET r1 == Log(r, <<Ev(IF ok THEN "ok" ELSE "failed", tasks(r)[r.k], r.client)>>)
      r2 == IF ok THEN [r1 EXCEPT !.results = Append(@, ResultOf(tasks(r)[r.k]))]
            ELSE [r1 EXCEPT !.txnErr = ErrorOf(tasks(r)[r.k])]
  IN  IF r.k < Len(tasks(r))
      THEN runTask([r2 EXCEPT !.k = r.k + 1], r.k + 1)
      ELSE IF r2.txnErr # Null THEN seriesFailed(r2, r2.txnErr)
           ELSE seriesSucceeded(r2)

\* the callback of task k: async.series collects the result and runs the
\* next task, or stops at the first error
taskDone(r, ok) ==
  LET r1 == Log(r, <<Ev(IF ok THEN "ok" ELSE "failed", tasks(r)[r.k], r.client)>>)
  IN  IF ~ok
      THEN seriesFailed(r1, ErrorOf(tasks(r)[r.k]))
      ELSE LET r2 == [r1 EXCEPT !.results = Append(@, ResultOf(tasks(r)[r.k]))]
           IN  IF r.k < Len(tasks(r))
               THEN runTask([r2 EXCEPT !.k = r.k + 1], r.k + 1)
               ELSE seriesSucceeded(r2)

\* rollbackDone reporting the statement error also when ROLLBACK failed
rollbackDone_statementError(r, ok) ==
  LET r1 == Log(r, <<Ev(IF ok THEN "ok" ELSE "failed", ROLLBACK, r.client),
                     Ev("info", <<"Transaction complete!">>, 0)>>)
  IN  Finish(complete(callback(r1, <<r.txnErr>>), r.client),
             IF ~ok THEN "rollback_error"
             ELSE IF r.k = 1 THEN "begin_error" ELSE "statement_error")

\* rollbackDone without the return after the failed ROLLBACK was reported
rollbackDone_fallsThrough(r, ok) ==
  LET r1 == IF ok THEN Log(r, <<Ev("ok", ROLLBACK, r.client)>>)
            ELSE callback(Log(r, <<Ev("failed", ROLLBACK, r.client),
                                   Ev("error", <<"Rollback failed">>, 0),
                                   Ev("info", <<"Transaction complete!">>, 0)>>),
                          <<ErrorOf(ROLLBACK)>>)
      r2 == Log(r1, <<Ev("info", <<"Rollback complete!">>, 0),
                      Ev("info", <<"Transaction complete!">>, 0)>>)
  IN  Finish(complete(callback(r2, <<r.txnErr>>), r.client),
             IF ~ok THEN "rollback_error"
             ELSE IF r.k = 1 THEN "begin_error" ELSE "statement_error")

rollbackDone(r, ok) ==
  IF ~ok
  THEN LET r1 == Log(r, <<Ev("failed", ROLLBACK, r.client),
                          Ev("error", <<"Rollback failed">>, 0),
                          Ev("info", <<"Transaction complete!">>, 0)>>)
       IN  Finish(complete(callback(r1, <<ErrorOf(ROLLBACK)>>), r.client),
                  "rollback_error")
  ELSE LET r1 == Log(r, <<Ev("ok", ROLLBACK, r.client),
                          Ev("info", <<"Rollback complete!">>, 0),
                          Ev("info", <<"Transaction complete!">>, 0)>>)
       IN  Finish(complete(callback(r1, <<r.txnErr>>), r.client),
                  IF r.k = 1 THEN "begin_error" ELSE "statement_error")

\* commitDone without complete() on the failure path
commitDone_noRelease(r, ok) ==
  IF ~ok
  THEN LET r1 == Log(r, <<Ev("failed", COMMIT, r.client),
                          Ev("error", <<"Commit failed">>, 0),
                          Ev("info", <<"Transaction complete!">>, 0)>>)
       IN  Finish(callback(r1, <<ErrorOf(COMMIT)>>), "commit_error")
  ELSE LET r1 == Log(r, <<Ev("ok", COMMIT, r.client),
                          Ev("info", <<"Commit complete!">>, 0),
                          Ev("info", <<"Transaction complete!">>, 0)>>)
       IN  Finish(callback(complete(r1, r.client), <<Null, r.results>>),
                  "success")

commitDone(r, ok) ==
  IF ~ok
  THEN LET r1 == Log(r, <<Ev("failed", COMMIT, r.client),
                          Ev("error", <<"Commit failed">>, 0),
                          Ev("info", <<"Transaction complete!">>, 0)>>)
       IN  Finish(callback(complete(r1, r.client), <<ErrorOf(COMMIT)>>),
                  "commit_error")
  ELSE LET r1 == Log(r, <<Ev("ok", COMMIT, r.client),
                          Ev("info", <<"Commit complete!">>, 0),
                          Ev("info", <<"Transaction complete!">>, 0)>>)
       IN  Finish(callback(complete(r1, r.client), <<Null, r.results>>),
                  "success")

----------------------------------------------------------------------------
\* generateOrderByClause(table, orderByArray, groupByArray, joinArray)

SEP == "__"
Absent == <<"absent">>

\* this.escapeField(name), of the base adapter
escapeField(name) == <<"\"">> \o name \o <<"\"">>

\* columnName.split('__')
RECURSIVE splitColumn(_)
splitColumn(name) ==
  IF \A i \in 1..Len(name) : name[i] # SEP
  THEN <<name>>
  ELSE LET i == CHOOSE j \in 1..Len(name) :
                  name[j] = SEP /\ \A n \in 1..(j - 1) : name[n] # SEP
       IN  <<SubSeq(name, 1, i - 1)>> \o splitColumn(SubSeq(name, i + 1, Len(name)))

\* array.join(sep)
RECURSIVE joinTexts(_, _)
joinTexts(texts, sep) ==
  IF texts = <<>> THEN <<>>
  ELSE IF Len(texts) = 1 THEN texts[1]
  ELSE texts[1] \o sep \o joinTexts(Tail(texts), sep)

\* joinObj.find(join => join.joinAlias === alias): the first such entry
findJoin(joinObj, alias) ==
  IF \E i \in 1..Len(joinObj) : joinObj[i].joinAlias = alias
  THEN joinObj[CHOOSE i \in 1..Len(joinObj) :
                 /\ joinObj[i].joinAlias = alias
                 /\ \A j \in 1..(i - 1) : joinObj[j].joinAlias # alias]
  ELSE [joinAlias |-> Absent]

\* joinArray.every(joinObj => { join = joinObj.find(...); return !join; })
RECURSIVE everyJoin(_, _)
everyJoin(groups, alias) ==
  IF groups = <<>> THEN [joinAlias |-> Absent]
  ELSE IF findJoin(Head(groups), alias).joinAlias # Absent
       THEN findJoin(Head(groups), alias)
       ELSE everyJoin(Tail(groups), alias)

\* escapedColumn with the fallback naming the trailing segment only
escapedColumn_trailing(table, columnName, joinArray) ==
  LET columnNameComponents == splitColumn(columnName)
      n == Len(columnNameComponents)
  IN  IF n = 1
      THEN escapeField(table) \o <<".">> \o escapeField(columnName)
      ELSE IF joinArray.supplied
      THEN LET join == everyJoin(joinArray.groups,
                         joinTexts(SubSeq(columnNameComponents, 1, n - 1), <<SEP>>))
           IN  IF join.joinAlias = Absent
               THEN escapeField(table) \o <<".">>
                      \o escapeField(columnNameComponents[n])
               ELSE escapeField(join.joinAlias) \o <<".">>
                      \o escapeField(columnNameComponents[n])
      ELSE Absent

\* the callback of v.columnNames.map: the escaped column, or null (Absent)
escapedColumn(table, columnName, joinArray) ==
  LET columnNameComponents == splitColumn(columnName)
      n == Len(columnNameComponents)
  IN  IF n = 1
      THEN escapeField(table) \o <<".">> \o escapeField(columnName)
      ELSE IF joinArray.supplied
      THEN LET join == everyJoin(joinArray.groups,
                         joinTexts(SubSeq(columnNameComponents, 1, n - 1), <<SEP>>))
           IN  IF join.joinAlias = Absent
               THEN escapeField(table) \o <<".">> \o escapeField(columnName)
               ELSE escapeField(join.joinAlias) \o <<".">>
                      \o escapeField(columnNameComponents[n])
      ELSE Absent

IsPresent(x) == x # Absent

\* v.escapedColumns = v.columnNames.map(...).filter(columnName => !!columnName)
escapedColumns(table, v, joinArray) ==
  SelectSeq([i \in 1..Len(v.columnNames) |->
               escapedColumn(table, v.columnNames[i], joinArray)],
            IsPresent)

\* orderByArray.map(v => { v.escapedColumns = ...; return v; }): the same
\* objects, each with its escapedColumns property set
withEscapedColumns(table, orderByArray, joinArray) ==
  [i \in 1..Len(orderByArray) |->
     [orderByArray[i] EXCEPT
        !.escapedColumns = escapedColumns(table, orderByArray[i], joinArray)]]

HasColumns(v) == Len(v.escapedColumns) # 0

\* (v.transformation || (v => v)).apply(null, v.escapedColumns)
transformed(v) ==
  IF v.transformation = "none" THEN v.escapedColumns[1]
  ELSE <<v.transformation, "(">> \o joinTexts(v.escapedColumns, <<",">>) \o <<")">>

\* the returned string, from columnEscapedOrderByArray
orderByClause_bare(columnEscapedOrderByArray) ==
  <<" ", "ORDER BY", " ">>
    \o joinTexts([i \in 1..Len(columnEscapedOrderByArray) |->
                    transformed(columnEscapedOrderByArray[i]) \o <<" ">>
                      \o <<columnEscapedOrderByArray[i].direction>>],
                 <<",", " ">>)

orderByClause(columnEscapedOrderByArray) ==
  IF Len(columnEscapedOrderByArray) = 0 THEN <<>>
  ELSE <<" ", "ORDER BY", " ">>
         \o joinTexts([i \in 1..Len(columnEscapedOrderByArray) |->
                         transformed(columnEscapedOrderByArray[i]) \o <<" ">>
                           \o <<columnEscapedOrderByArray[i].direction>>],
                      <<",", " ">>)

\* Arguments tried
ColumnLists ==
  { <<>>, << <<"name">> >>, << <<"profile", SEP, "bio">> >>,
    << <<"name">>, <<"profile", SEP, "bio">> >>,
    << <<"a", SEP, "b", SEP, "c">>, <<"x", SEP, "y">> >> }
OrderSpecs ==
  { [columnNames |-> cs, direction |-> d, transformation |-> t,
     escapedColumns |-> Absent] :
      cs \in ColumnLists, d \in {"ASC", "DESC"}, t \in {"none", "GREATEST"} }
RECURSIVE SeqsUpTo(_, _)
SeqsUpTo(S, n) ==
  IF n = 0 THEN {<<>>}
  ELSE LET shorter == SeqsUpTo(S, n - 1)
       IN  shorter \cup {Append(q, x) : q \in shorter, x \in S}
Join(alias) == [joinAlias |-> alias]
JoinArrays ==
  { [supplied |-> FALSE, groups |-> <<>>],
    [supplied |-> TRUE, groups |-> <<>>],
    [supplied |-> TRUE, groups |-> << <<Join(<<"profile">>)>> >>],
    [supplied |-> TRUE,
     groups |-> << <<Join(<<"other">>)>>,
                   <<Join(<<"a", SEP, "b">>), Join(<<"profile">>)>> >>] }

----------------------------------------------------------------------------
\* The state machine

\* The caller's arguments before any call of generateOrderByClause: `given`
\* keeps them as they were handed over, columnEscapedOrderByArray is the
\* function's local of that name in the latest call
OrderByArgs(table, orderByArray, joinArray) ==
  [table |-> table, orderByArray |-> orderByArray, joinArray |-> joinArray,
   given |-> [table |-> table, orderByArray |-> orderByArray,
              joinArray |-> joinArray],
   columnEscapedOrderByArray |-> <<>>,
   results |-> <<>>]

Init ==
  /\ clients = {}
  /\ idle = {}
  /\ ops = [o \in Ops |-> Fresh]
  /\ closed = FALSE
  /\ ending = FALSE
  /\ ob = OrderByArgs(<<"users">>, <<>>, [supplied |-> FALSE, groups |-> <<>>])

\* A handler ran for call o and left it as `new`: the pool follows what the
\* handler did (connect takes a client, complete gives its client back)
Do(o, new) ==
  LET evs == SubSeq(new.log, Len(ops[o].log) + 1, Len(new.log))
  IN  /\ ops' = [ops EXCEPT ![o] = new]
      /\ clients' = IF ending THEN clients \ released(evs)
                    ELSE clients \cup taken(evs)
      /\ idle' = IF ending THEN {}
                 ELSE (idle \ taken(evs)) \cup released(evs)
      /\ UNCHANGED <<closed, ending, ob>>

\* pool.connect() on a pool that is ending calls back at once with the error:
\* the call is over when it returns
refused(r, failed) == IF r.pc = "connect" /\ r.pending = 0 THEN failed ELSE r

\* The acquisition failed: the pool drops the client it was opening and calls
\* back with (err, no client, a callable that releases nothing)
DoFailed(o, new) ==
  /\ ops' = [ops EXCEPT ![o] = new]
  /\ clients' = clients \ {ops[o].pending}
  /\ idle' = idle
  /\ UNCHANGED <<closed, ending, ob>>

At(o, kind, pc) == ops[o].kind = kind /\ ops[o].pc = pc

CallQuery(o) ==
  /\ ops[o].pc = "idle"
  /\ \E call \in QueryCalls :
       LET r == query(ops[o], call, isFull, connectClient)
       IN  Do(o, refused(r, queryConnectErr(r)))

QueryConnectErr(o) ==
  /\ At(o, "query", "connect")
  /\ DoFailed(o, queryConnectErr(ops[o]))

QueryConnectOk(o) ==
  /\ At(o, "query", "connect")
  /\ \E throws \in BOOLEAN : Do(o, queryConnectOk(ops[o], throws))

QueryClientDone(o) ==
  /\ At(o, "query", "query")
  /\ \E ok \in BOOLEAN : Do(o, queryClientDone(ops[o], ok))

CallCreateTransaction(o) ==
  /\ ops[o].pc = "idle"
  /\ LET r == createTransaction(ops[o], isFull, connectClient)
     IN  Do(o, refused(r, createTransactionConnectErr(r)))

CreateTransactionConnectErr(o) ==
  /\ At(o, "createTransaction", "connect")
  /\ DoFailed(o, createTransactionConnectErr(ops[o]))

CreateTransactionConnectOk(o) ==
  /\ At(o, "createTransaction", "connect")
  /\ Do(o, createTransactionConnectOk(ops[o]))

BeginClientDone(o) ==
  /\ At(o, "createTransaction", "begin")
  /\ \E ok \in BOOLEAN : Do(o, beginClientDone(ops[o], ok))

CallTransaction(o) ==
  /\ ops[o].pc = "idle"
  /\ \E call \in TransactionCalls :
       LET r == transaction(ops[o], call, isFull, connectClient)
       IN  Do(o, refused(r, transactionConnectErr(r)))

TransactionConnectErr(o) ==
  /\ At(o, "transaction", "connect")
  /\ DoFailed(o, transactionConnectErr(ops[o]))

TransactionConnectOk(o) ==
  /\ At(o, "transaction", "connect")
  /\ Do(o, transactionConnectOk(ops[o]))

TaskDone(o) ==
  /\ At(o, "transaction", "series")
  /\ \E ok \in BOOLEAN : Do(o, taskDone(ops[o], ok))

RollbackDone(o) ==
  /\ At(o, "transaction", "rollback")
  /\ \E ok \in BOOLEAN : Do(o, rollbackDone(ops[o], ok))

CommitDone(o) ==
  /\ At(o, "transaction", "commit")
  /\ \E ok \in BOOLEAN : Do(o, commitDone(ops[o], ok))

\* The caller is done with the outcome of call o; the slot takes a new call
Return(o) ==
  /\ ops[o].pc = "done"
  /\ ops' = [ops EXCEPT ![o] = Fresh]
  /\ UNCHANGED <<clients, idle, closed, ending, ob>>

\* An idle client is closed after idleTimeoutMillis
IdleTimeout(c) ==
  /\ c \in idle
  /\ clients' = clients \ {c}
  /\ idle' = idle \ {c}
  /\ UNCHANGED <<ops, closed, ending, ob>>

\* close() without this.pool.end()
close_noEnd(wasEnding) == wasEnding

\* close(): this.pool.end()
close(wasEnding) == TRUE

\* The adapter is closed; a pool that is ending closes its idle clients
Close ==
  /\ ~closed
  /\ closed' = TRUE
  /\ ending' = close(ending)
  /\ idle' = IF ending' THEN {} ELSE idle
  /\ clients' = IF ending' THEN clients \ idle ELSE clients
  /\ UNCHANGED <<ops, ob>>

Next ==
  \/ \E o \in Ops :
       \/ CallQuery(o)
       \/ QueryConnectErr(o)
       \/ QueryConnectOk(o)
       \/ QueryClientDone(o)
       \/ CallCreateTransaction(o)
       \/ CreateTransactionConnectErr(o)
       \/ CreateTransactionConnectOk(o)
       \/ BeginClientDone(o)
       \/ CallTransaction(o)
       \/ TransactionConnectErr(o)
       \/ TransactionConnectOk(o)
       \/ TaskDone(o)
       \/ RollbackDone(o)
       \/ CommitDone(o)
       \/ Return(o)
  \/ \E c \in idle : IdleTimeout(c)
  \/ Close

\* One caller hands every string of up to MaxStrLen characters to transaction
CallTransactionString(o) ==
  /\ ops[o].pc = "idle"
  /\ \E str \in Strings(MaxStrLen) :
       LET r == transaction(ops[o],
                            [preparedArray |-> [type |-> "string", val |-> str],
                             callback |-> "function"],
                            isFull, connectClient)
       IN  Do(o, refused(r, transactionConnectErr(r)))

NextStrings ==
  \/ CallTransactionString(1)
  \/ TransactionConnectErr(1)
  \/ TransactionConnectOk(1)
  \/ TaskDone(1)
  \/ RollbackDone(1)
  \/ CommitDone(1)
  \/ Return(1)

SpecStrings == Init /\ [][NextStrings]_vars

\* generateOrderByClause is called up to MaxCalls times on the same arguments,
\* which are every table, list of up to MaxSpecs OrderSpecs and joinArray tried
generateOrderByClause(table, orderByArray, joinArray) ==
  LET mapped == withEscapedColumns(table, orderByArray, joinArray)
      columnEscapedOrderByArray == SelectSeq(mapped, HasColumns)
  IN  [orderByArray |-> mapped,
       columnEscapedOrderByArray |-> columnEscapedOrderByArray,
       result |-> orderByClause(columnEscapedOrderByArray)]

GenerateOrderByClause ==
  /\ Len(ob.results) < MaxCalls
  /\ LET out == generateOrderByClause(ob.table, ob.orderByArray, ob.joinArray)
     IN  ob' = [ob EXCEPT !.orderByArray = out.orderByArray,
                          !.columnEscapedOrderByArray =
                             out.columnEscapedOrderByArray,
                          !.results = Append(@, out.result)]
  /\ UNCHANGED <<clients, idle, ops, closed, ending>>

InitOrderBy ==
  /\ clients = {}
  /\ idle = {}
  /\ ops = [o \in Ops |-> Fresh]
  /\ closed = FALSE
  /\ ending = FALSE
  /\ \E orderByArray \in SeqsUpTo(OrderSpecs, MaxSpecs), joinArray \in JoinArrays :
       ob = OrderByArgs(<<"users">>, orderByArray, joinArray)

NextOrderBy == GenerateOrderByClause

SpecOrderBy == InitOrderBy /\ [][NextOrderBy]_vars

Spec == Init /\ [][Next]_vars

----------------------------------------------------------------------------
\* Properties

Done(o) == ops[o].pc = "done"
Acquired(r) == r.client # 0
Releases(r) ==
  Cardinality({i \in 1..Len(r.log) :
                 r.log[i].ev = "complete" /\ r.log[i].client = r.client})
Issued(r) == SelectEv(r.log, "issue")
Failed(r) == SelectEv(r.log, "failed")
ReportedOutcomes ==
  {"success", "statement_error", "begin_error", "commit_error", "rollback_error"}
HandleHeld(r) == r.kind = "createTransaction" /\ r.outcome = "success"

\* C1: a call that acquired a connection and ended in success, statement
\* failure, begin failure, commit failure or rollback failure has invoked the
\* release action of that connection exactly once when it has finished (never
\* more than once before that), except a successful createTransaction, which
\* has invoked it zero times.
C1_ReleasedExactlyOnce ==
  \A o \in Ops :
    LET r == ops[o]
    IN  /\ Releases(r) <= 1
        /\ (Done(o) /\ Acquired(r) /\ r.outcome \in ReportedOutcomes)
             => Releases(r) = (IF HandleHeld(r) THEN 0 ELSE 1)

C1_Witness ==
  /\ Done(1) /\ ops[1].kind = "transaction" /\ ops[1].outcome = "rollback_error"
  /\ Releases(ops[1]) = 1
  /\ Done(2) /\ HandleHeld(ops[2]) /\ Acquired(ops[2]) /\ Releases(ops[2]) = 0

ReportedFull(r) ==
  \E i \in 1..Len(r.log) : r.log[i].ev = "_isFull" /\ r.log[i].text = <<"full">>

\* C2: a call to which the pool reported at-capacity has passed 'Pool is full'
\* to the callback, as the only callback, and has neither invoked
\* pool.connect, acquired a connection nor issued a statement.
C2_PoolFullRejects ==
  \A o \in Ops :
    LET r == ops[o]
    IN  ReportedFull(r) =>
          /\ Done(o)
          /\ r.cb = << <<PoolIsFull>> >>
          /\ ~Has(r.log, "connect")
          /\ ~Acquired(r) /\ r.pending = 0
          /\ Issued(r) = <<>>

C2_Witness ==
  /\ ReportedFull(ops[1]) /\ ops[1].kind = "transaction"
  /\ ReportedFull(ops[2]) /\ ops[2].kind = "query"
  /\ ops[1].cb = << <<PoolIsFull>> >>

\* C3 (as claimed): every finished call that acquired a connection and called
\* back on a path that releases (all but a successful createTransaction) has
\* invoked the release action before the callback.
C3_ReleaseBeforeCallback ==
  \A o \in Ops :
    LET r == ops[o]
    IN  (Done(o) /\ Acquired(r) /\ Has(r.log, "callback") /\ ~HandleHeld(r))
          => /\ Has(r.log, "complete")
             /\ First(r.log, "complete") < First(r.log, "callback")

IsStep(t) == t # ROLLBACK /\ t # COMMIT
Steps(r) == SelectSeq(Issued(r), IsStep)
Supplied(r) ==
  IF r.call.preparedArray.type = "array" THEN r.call.preparedArray.val
  ELSE r.queries
Expected(r) == <<BEGIN>> \o [i \in 1..Len(Supplied(r)) |-> Supplied(r)[i][1]]
FailedSteps(r) == SelectSeq(Failed(r), IsStep)
Succeeded(r) == SelectSeq(SelectEv(r.log, "ok"), IsStep)
Completions(log) == Count(log, "ok") + Count(log, "failed")

\* C4: in a batch the steps issued are a prefix of BEGIN, S1, ..., Sn; each
\* statement is issued only when every statement issued before it has
\* completed, and (ROLLBACK apart) completed successfully; once a step has
\* failed, the steps issued stop at it, ROLLBACK has been issued exactly once
\* and COMMIT never.
C4_SequentialStopAtFirstFailure ==
  \A o \in Ops :
    LET r == ops[o]
    IN  (r.kind = "transaction" /\ Acquired(r)) =>
          /\ Len(Steps(r)) <= Len(Expected(r))
          /\ Steps(r) = SubSeq(Expected(r), 1, Len(Steps(r)))
          /\ \A i \in 1..Len(r.log) :
               r.log[i].ev = "issue" =>
                 LET before == SubSeq(r.log, 1, i - 1)
                 IN  /\ Count(before, "issue") = Completions(before)
                     /\ IsStep(r.log[i].text) => Count(before, "failed") = 0
          /\ FailedSteps(r) # <<>> =>
               /\ Len(FailedSteps(r)) = 1
               /\ Len(Steps(r)) = Len(Succeeded(r)) + 1
               /\ FailedSteps(r)[1] = Expected(r)[Len(Steps(r))]
               /\ CountText(r.log, "issue", ROLLBACK) = 1
               /\ CountText(r.log, "issue", COMMIT) = 0

C4_Witness ==
  \E o \in Ops :
    /\ ops[o].kind = "transaction" /\ Done(o)
    /\ Len(Supplied(ops[o])) = 2
    /\ FailedSteps(ops[o]) = <<Supplied(ops[o])[1][1]>>
    /\ Steps(ops[o]) = <<BEGIN, Supplied(ops[o])[1][1]>>

BatchSucceeded(o) ==
  /\ ops[o].kind = "transaction" /\ Done(o) /\ Acquired(ops[o])
  /\ Failed(ops[o]) = <<>>

\* C5 (as claimed): a batch [S1..Sn] whose statements and COMMIT all succeeded has
\* issued COMMIT exactly once and ROLLBACK never, and has called back once
\* with (null, [resultOf(S1), ..., resultOf(Sn)]).
C5_ResultsOfStatements ==
  \A o \in Ops :
    LET r == ops[o]
    IN  (BatchSucceeded(o) /\ r.call.preparedArray.type = "array") =>
          /\ CountText(r.log, "issue", COMMIT) = 1
          /\ CountText(r.log, "issue", ROLLBACK) = 0
          /\ r.cb = << <<Null, [i \in 1..Len(Supplied(r)) |->
                                  ResultOf(Supplied(r)[i][1])]>> >>

BatchFailed(o) ==
  /\ ops[o].kind = "transaction" /\ Done(o) /\ Acquired(ops[o])
  /\ Failed(ops[o]) # <<>>

\* C6: a failed batch has called back exactly once, with one argument: the
\* ROLLBACK error when ROLLBACK failed, else the error of the failed step
\* when a step failed, else the COMMIT error.
C6_OneErrorReported ==
  \A o \in Ops :
    LET r == ops[o]
        rollbackFailed == \E i \in 1..Len(Failed(r)) : Failed(r)[i] = ROLLBACK
    IN  BatchFailed(o) =>
          /\ Len(r.cb) = 1
          /\ Len(r.cb[1]) = 1
          /\ r.cb[1][1] =
               (IF rollbackFailed THEN ErrorOf(ROLLBACK)
                ELSE IF FailedSteps(r) # <<>> THEN ErrorOf(FailedSteps(r)[1])
                ELSE ErrorOf(COMMIT))

C6_Witness ==
  /\ BatchFailed(1) /\ Len(Supplied(ops[1])) = 2
  /\ Failed(ops[1]) = <<Supplied(ops[1])[2][1], ROLLBACK>>
  /\ ops[1].cb = << <<ErrorOf(ROLLBACK)>> >>
  /\ BatchFailed(2) /\ Failed(ops[2]) = <<COMMIT>>

AcquisitionFailed(o) == Done(o) /\ Has(ops[o].log, "connect") /\ ~Acquired(ops[o])

\* C7 (as claimed): after a failed acquisition no release action has been
\* invoked, no statement has been issued and the acquisition error has been
\* passed to the callback.
C7_NoReleaseInvoked ==
  \A o \in Ops :
    AcquisitionFailed(o) =>
      /\ Count(ops[o].log, "complete") = 0
      /\ Issued(ops[o]) = <<>>
      /\ ops[o].cb = << <<ConnectError>> >>

\* C7 (amended): after a failed acquisition the completion function the pool
\* passed with the error has been invoked exactly once, for no connection;
\* no statement has been issued and the acquisition error has been passed to
\* the callback, as its only call.
C7_NothingReleased ==
  \A o \in Ops :
    AcquisitionFailed(o) =>
      /\ Count(ops[o].log, "complete") = 1
      /\ released(ops[o].log) = {}
      /\ Issued(ops[o]) = <<>>
      /\ ops[o].cb = << <<ConnectError>> >>

C7_Witness ==
  /\ AcquisitionFailed(1) /\ ops[1].kind = "transaction"
  /\ AcquisitionFailed(2) /\ ops[2].kind = "createTransaction"

\* C8 (as claimed): a finished query that acquired a connection has released
\* it, however the statement execution ended.
C8_QueryAlwaysReleases ==
  \A o \in Ops :
    (ops[o].kind = "query" /\ Done(o) /\ Acquired(ops[o]))
      => Releases(ops[o]) = 1

\* C9: a finished createTransaction that acquired a connection has, when
\* begin failed, released the connection and called back once with the begin
\* error alone; when begin succeeded, called back once with (null, handle),
\* the handle holding that connection and its release action, and has not
\* released the connection, which is still checked out.
C9_BeginOutcome ==
  \A o \in Ops :
    LET r == ops[o]
    IN  (r.kind = "createTransaction" /\ Done(o) /\ Acquired(r)) =>
          IF Failed(r) # <<>>
          THEN /\ Releases(r) = 1
               /\ r.cb = << <<ErrorOf(BEGIN)>> >>
          ELSE /\ r.cb = << <<Null, newTransaction(r.client, r.client)>> >>
               /\ Count(r.log, "complete") = 0
               /\ r.client \in clients \ idle

C9_Witness ==
  /\ ops[1].kind = "createTransaction" /\ Done(1) /\ Acquired(ops[1])
  /\ Failed(ops[1]) = <<BEGIN>>
  /\ ops[2].kind = "createTransaction" /\ Done(2) /\ Acquired(ops[2])
  /\ Failed(ops[2]) = <<>>
  /\ ops[2].client \in clients \ idle

InvalidQueryCall(call) ==
  call.argc < 3 \/ call.params # "array" \/ call.callback # "function"

\* C10: a call of query with fewer than three arguments, params that is not
\* an array or a callback that is not a function throws: no callback, no
\* _isFull(), no connect, the pool as it was, and never 'Pool is full'.
C10_ValidationFirst ==
  [][\A o \in Ops :
       (ops[o].pc = "idle" /\ ops'[o].kind = "query"
          /\ InvalidQueryCall(ops'[o].call)) =>
         /\ ops'[o].pc = "done"
         /\ ops'[o].thrown.kind = "error"
         /\ ops'[o].thrown # PoolIsFull
         /\ ops'[o].cb = <<>>
         /\ ops'[o].log = <<>>
         /\ clients' = clients /\ idle' = idle]_vars

C10_Witness ==
  \E o \in Ops :
    /\ ops[o].kind = "query" /\ InvalidQueryCall(ops[o].call)
    /\ ops[o].call.argc = 3 /\ ops[o].call.params = "object"
    /\ ops[o].thrown = Error(<<"params must be a valid array">>)
    /\ isFull

\* The statement list a call of transaction asks for: the list itself, or the
\* non-empty fragments of the string between its ';'
NonEmptyFragments(str) ==
  Cardinality({i \in 1..Len(str) :
                 str[i] # ";" /\ (i = 1 \/ str[i - 1] = ";")})
AsksForNothing(call) ==
  IF call.preparedArray.type = "array" THEN call.preparedArray.val = <<>>
  ELSE NonEmptyFragments(call.preparedArray.val) = 0

\* C11 (as claimed): a call of transaction whose statement list is empty, as
\* a list or as a string without a non-empty fragment, has thrown before the
\* admission check: no _isFull(), no connect, no BEGIN.
C11_EmptyBatchThrows ==
  \A o \in Ops :
    LET r == ops[o]
    IN  (r.kind = "transaction" /\ AsksForNothing(r.call)) =>
          /\ Done(o)
          /\ r.thrown.kind = "error"
          /\ r.log = <<>>

\* The non-empty fragments of a string, as the maximal runs of characters
\* other than ';', in the order they start
RunStarts(str) ==
  {i \in 1..Len(str) : str[i] # ";" /\ (i = 1 \/ str[i - 1] = ";")}
RunEnd(str, i) ==
  CHOOSE j \in i..Len(str) :
    /\ \A n \in i..j : str[n] # ";"
    /\ (j = Len(str) \/ str[j + 1] = ";")
NthOf(S, n) == CHOOSE x \in S : Cardinality({y \in S : y < x}) = n - 1
Fragments(str) ==
  [n \in 1..Cardinality(RunStarts(str)) |->
     SubSeq(str, NthOf(RunStarts(str), n), RunEnd(str, NthOf(RunStarts(str), n)))]

\* C12: a string handed to transaction becomes one statement per non-empty
\* fragment between the ';', in the order of the string, each made of its
\* text alone; the batch logs it with an empty parameter list, passes no
\* parameters with it, issues BEGIN and then those texts in that order, and
\* has issued all of them when every step succeeded.
C12_StringSplitsIntoStatements ==
  \A o \in Ops :
    LET r == ops[o]
        frags == Fragments(r.call.preparedArray.val)
    IN  (r.kind = "transaction" /\ r.call.preparedArray.type = "string"
           /\ r.thrown = Null) =>
          /\ r.queries = [n \in 1..Len(frags) |-> <<frags[n]>>]
          /\ \A i \in 1..Len(r.log) :
               /\ r.log[i].ev = "log" => r.log[i].params = <<>>
               /\ r.log[i].ev = "issue" => r.log[i].params = Undefined
          /\ Len(Steps(r)) <= Len(frags) + 1
          /\ Steps(r) = SubSeq(<<BEGIN>> \o frags, 1, Len(Steps(r)))
          /\ (Done(o) /\ Acquired(r) /\ Failed(r) = <<>>)
               => Steps(r) = <<BEGIN>> \o frags

C12_Witness ==
  /\ ops[1].kind = "transaction" /\ Done(1) /\ Failed(ops[1]) = <<>>
  /\ ops[1].call.preparedArray = [type |-> "string", val |-> <<"a", ";", "b", ";">>]
  /\ ops[1].queries = << << <<"a">> >>, << <<"b">> >> >>
  /\ Steps(ops[1]) = <<BEGIN, <<"a">>, <<"b">> >>

Rejected(r) ==
  \/ r.thrown.kind = "error"
  \/ /\ Len(r.cb) = 1 /\ Len(r.cb[1]) = 1 /\ r.cb[1][1].kind = "error"

\* C13: once close() has been called it stays called, and every call of
\* query, transaction or createTransaction made from then on is over when it
\* returns: rejected with an error, without a connection, without a statement
\* issued, the pool's clients as they were.
C13_NoAdmissionAfterClose ==
  [][/\ closed => closed'
     /\ \A o \in Ops :
          (closed /\ ops[o].pc = "idle" /\ ops'[o].pc # "idle") =>
            /\ ops'[o].pc = "done"
            /\ Rejected(ops'[o])
            /\ ~Acquired(ops'[o])
            /\ Issued(ops'[o]) = <<>>
            /\ clients' = clients /\ idle' = idle]_vars

C13_Witness ==
  /\ closed
  /\ ops[1].kind = "query" /\ Done(1) /\ ops[1].cb = << <<ConnectError>> >>
  /\ ops[2].kind = "transaction" /\ Done(2) /\ ops[2].cb = << <<ConnectError>> >>
  /\ \A o \in Ops : \E i \in 1..Len(ops[o].log) :
       ops[o].log[i].ev = "connect" /\ ops[o].log[i].client = 0

\* ---- generateOrderByClause ----

Called == Len(ob.results) >= 1
Namespaced(ref) == \E i \in 1..Len(ref) : ref[i] = SEP
LastSep(ref) == CHOOSE i \in 1..Len(ref) :
                  ref[i] = SEP /\ \A j \in (i + 1)..Len(ref) : ref[j] # SEP
Chain(ref) == SubSeq(ref, 1, LastSep(ref) - 1)
Trailing(ref) == SubSeq(ref, LastSep(ref) + 1, Len(ref))
Qualified(qualifier, column) ==
  escapeField(qualifier) \o <<".">> \o escapeField(column)
GroupHas(group, alias) == \E k \in 1..Len(group) : group[k].joinAlias = alias
AliasKnown(ref) ==
  \E g \in 1..Len(ob.given.joinArray.groups) :
     GroupHas(ob.given.joinArray.groups[g], Chain(ref))
Dropped(ref) == Namespaced(ref) /\ ~ob.given.joinArray.supplied
Resolution(ref) ==
  IF ~Namespaced(ref) THEN Qualified(ob.given.table, ref)
  ELSE IF AliasKnown(ref) THEN Qualified(Chain(ref), Trailing(ref))
  ELSE Qualified(ob.given.table, ref)
\* the positions of the references of OrderSpec i that are not dropped
Kept(i) == {n \in 1..Len(ob.given.orderByArray[i].columnNames) :
              ~Dropped(ob.given.orderByArray[i].columnNames[n])}
Surviving == {i \in 1..Len(ob.given.orderByArray) : Kept(i) # {}}
\* the n-th smallest member of a set of numbers
NthMember(S, n) == CHOOSE x \in S : Cardinality({y \in S : y <= x}) = n

\* C14: after a call, the resolved columns of every OrderSpec are the
\* resolutions of its references that are not dropped, in order: a reference
\* without separator is qualified with the table; one with a separator and
\* joins supplied is qualified by the alias equal to the reference minus its
\* trailing segment when some group has it, and as the full reference with
\* the table otherwise; one with a separator and no joins is dropped. The
\* OrderSpecs with no resolved column are dropped and the others keep their
\* order.
C14_ColumnResolution ==
  Called =>
    /\ \A i \in 1..Len(ob.given.orderByArray) :
         LET v == ob.given.orderByArray[i]
             cols == ob.orderByArray[i].escapedColumns
         IN  /\ Len(cols) = Cardinality(Kept(i))
             /\ \A n \in 1..Len(cols) :
                  cols[n] = Resolution(v.columnNames[NthMember(Kept(i), n)])
    /\ Len(ob.columnEscapedOrderByArray) = Cardinality(Surviving)
    /\ \A n \in 1..Len(ob.columnEscapedOrderByArray) :
         LET i == NthMember(Surviving, n)
         IN  /\ ob.columnEscapedOrderByArray[n] = ob.orderByArray[i]
             /\ ob.columnEscapedOrderByArray[n].columnNames
                  = ob.given.orderByArray[i].columnNames

\* An alias found in the second group, a namespaced reference with no alias
\* that falls back to the table, and an OrderSpec dropped for having no column
C14_Witness ==
  /\ Called
  /\ Len(ob.given.orderByArray) = 2
  /\ ob.given.orderByArray[1].columnNames = <<>>
  /\ ob.given.orderByArray[2].columnNames
       = << <<"a", SEP, "b", SEP, "c">>, <<"x", SEP, "y">> >>
  /\ Len(ob.given.joinArray.groups) = 2
  /\ Len(ob.columnEscapedOrderByArray) = 1
  /\ ob.columnEscapedOrderByArray[1].escapedColumns
       = << <<"\"", "a", SEP, "b", "\"", ".", "\"", "c", "\"">>,
            <<"\"", "users", "\"", ".", "\"", "x", SEP, "y", "\"">> >>

\* The term of the n-th surviving OrderSpec: its transformed column
\* expression, a space, its direction
Term(n) ==
  LET v == ob.given.orderByArray[NthMember(Surviving, n)]
      cols == ob.orderByArray[NthMember(Surviving, n)].escapedColumns
      expression ==
        IF v.transformation = "none" THEN cols[1]
        ELSE <<v.transformation, "(">> \o cols[1]
               \o (IF Len(cols) = 2 THEN <<",">> \o cols[2] ELSE <<>>)
               \o <<")">>
  IN  expression \o <<" ", v.direction>>
\* Terms n..last, each after the first preceded by sep
RECURSIVE TermsFrom(_, _)
TermsFrom(n, sep) ==
  IF n > Cardinality(Surviving) THEN <<>>
  ELSE (IF n = 1 THEN <<>> ELSE sep) \o Term(n) \o TermsFrom(n + 1, sep)
Fragment == ob.results[Len(ob.results)]

\* C15 as stated: the fragment is empty when no OrderSpec survives, and
\* otherwise 'ORDER BY ' with nothing before it, then the terms joined by a
\* comma
C15_FragmentAsStated ==
  Called =>
    Fragment = IF Surviving = {} THEN <<>>
               ELSE <<"ORDER BY", " ">> \o TermsFrom(1, <<",">>)

\* C15 (amended): the fragment is empty when no OrderSpec survives, and
\* otherwise a space, 'ORDER BY ', then the terms joined by a comma and a
\* space
C15_Fragment ==
  Called =>
    Fragment = IF Surviving = {} THEN <<>>
               ELSE <<" ", "ORDER BY", " ">> \o TermsFrom(1, <<",", " ">>)

\* table "users", columns ["name"], direction ASC, no joins
C15_Witness ==
  /\ Called
  /\ ob.given.table = <<"users">>
  /\ Len(ob.given.orderByArray) = 1
  /\ ob.given.orderByArray[1].columnNames = << <<"name">> >>
  /\ ob.given.orderByArray[1].direction = "ASC"
  /\ ob.given.orderByArray[1].transformation = "none"
  /\ ~ob.given.joinArray.supplied
  /\ Fragment = <<" ", "ORDER BY", " ",
                  "\"", "users", "\"", ".", "\"", "name", "\"", " ", "ASC">>

\* C16: calling generateOrderByClause leaves the table, every OrderSpec it
\* was given and the joins as they were, and every call on the same arguments
\* returns the same fragment
C16_PureAndDeterministic ==
  /\ ob.table = ob.given.table
  /\ ob.orderByArray = ob.given.orderByArray
  /\ ob.joinArray = ob.given.joinArray
  /\ \A m, n \in 1..Len(ob.results) : ob.results[m] = ob.results[n]

\* ---- admission under concurrency ----

CheckedOut == clients \ idle
\* pool.connect() of call r is running: no callback from the pool yet
Connecting(r) == r.pc = "connect"

\* C17: at most max connections are checked out at any time; a call never
\* rests between the capacity check and what follows it: told the pool is
\* full it is over, rejected with 'Pool is full' and without a connect, and
\* otherwise pool.connect has been invoked at once, and while it runs a
\* connection of the pool is set aside for the call (the call is not waiting
\* for capacity).
C17_SynchronousAdmission ==
  /\ Cardinality(CheckedOut) <= max
  /\ \A o \in Ops :
       LET r == ops[o]
       IN  /\ \A i \in 1..Len(r.log) :
                r.log[i].ev = "_isFull" =>
                  /\ i < Len(r.log)
                  /\ IF r.log[i].text = <<"full">>
                     THEN /\ r.log[i + 1].ev = "callback"
                          /\ r.cb = << <<PoolIsFull>> >>
                          /\ Done(o)
                          /\ ~Has(r.log, "connect")
                     ELSE r.log[i + 1].ev = "connect"
           /\ Connecting(r) =>
                /\ r.pending \in CheckedOut
                /\ \A p \in Ops \ {o} :
                     /\ Connecting(ops[p]) => ops[p].pending # r.pending
                     /\ (~Done(p) \/ HandleHeld(ops[p])) =>
                          ops[p].client # r.pending

\* The pool is at capacity with every connection checked out: one caller is
\* being connected while the other has just been turned away
C17_Witness ==
  /\ Cardinality(CheckedOut) = max
  /\ Connecting(ops[1]) /\ ops[1].pending \in CheckedOut
  /\ ReportedFull(ops[2]) /\ Done(2)

\* ---- lifecycle hooks of a batch ----

InfoAt(r, text) ==
  {i \in 1..Len(r.log) : r.log[i].ev = "info" /\ r.log[i].text = <<text>>}
IssueAt(r, sql) ==
  {i \in 1..Len(r.log) : r.log[i].ev = "issue" /\ r.log[i].text = sql}
OkAt(r, sql) ==
  {i \in 1..Len(r.log) : r.log[i].ev = "ok" /\ r.log[i].text = sql}
CallbackAt(r) == {i \in 1..Len(r.log) : r.log[i].ev = "callback"}
\* every position of Later has a position of Earlier before it
Precedes(Earlier, Later) == \A b \in Later : \E a \in Earlier : a < b
BatchRun(r) == r.kind = "transaction" /\ Acquired(r)

\* C18: in a batch run that acquired a connection, 'Transaction started...'
\* fires once and before BEGIN is issued; ROLLBACK is issued only after
\* 'Rollback started...' and 'Rollback complete!' fires only after ROLLBACK
\* succeeded; COMMIT is issued only after 'Commit started...' and 'Commit
\* complete!' fires only after COMMIT succeeded; 'Transaction complete!' fires
\* at most once, once when the run is over, and before the callback; rollback
\* hooks and commit hooks never both fire.
C18_LifecycleHooks ==
  \A o \in Ops :
    LET r == ops[o]
        rollbackHooks == InfoAt(r, "Rollback started...")
                           \cup InfoAt(r, "Rollback complete!")
        commitHooks == InfoAt(r, "Commit started...")
                         \cup InfoAt(r, "Commit complete!")
    IN  BatchRun(r) =>
          /\ Cardinality(InfoAt(r, "Transaction started...")) = 1
          /\ IssueAt(r, BEGIN) # {}
          /\ Precedes(InfoAt(r, "Transaction started..."), IssueAt(r, BEGIN))
          /\ Precedes(InfoAt(r, "Rollback started..."), IssueAt(r, ROLLBACK))
          /\ Precedes(OkAt(r, ROLLBACK), InfoAt(r, "Rollback complete!"))
          /\ Precedes(InfoAt(r, "Commit started..."), IssueAt(r, COMMIT))
          /\ Precedes(OkAt(r, COMMIT), InfoAt(r, "Commit complete!"))
          /\ Cardinality(InfoAt(r, "Transaction complete!")) <= 1
          /\ Done(o) => Cardinality(InfoAt(r, "Transaction complete!")) = 1
          /\ Precedes(InfoAt(r, "Transaction complete!"), CallbackAt(r))
          /\ rollbackHooks = {} \/ commitHooks = {}

\* One batch was rolled back and the other committed, both are over
C18_Witness ==
  /\ BatchRun(ops[1]) /\ Done(1) /\ InfoAt(ops[1], "Rollback complete!") # {}
  /\ BatchRun(ops[2]) /\ Done(2) /\ InfoAt(ops[2], "Commit complete!") # {}

\* ---- the callback ----

\* The ways a call that passed validation ends
CalledBackOutcomes ==
  {"full", "connect_error", "begin_error", "statement_error",
   "rollback_error", "commit_error", "success"}
PassedValidation(r) == r.kind # "none" /\ r.outcome # "invalid"

\* C19: a call never invokes its callback twice, and a call that passed
\* validation and ended with the pool full, a failed acquisition, a failed
\* BEGIN, a failed statement (ROLLBACK succeeding or failing), a failed COMMIT
\* or success has invoked it exactly once; a call that did not pass
\* validation has not invoked it.
C19_CallbackExactlyOnce ==
  \A o \in Ops :
    LET r == ops[o]
    IN  /\ Len(r.cb) <= 1
        /\ Cardinality(CallbackAt(r)) = Len(r.cb)
        /\ (Done(o) /\ PassedValidation(r) /\ r.outcome \in CalledBackOutcomes)
             => Len(r.cb) = 1
        /\ ~PassedValidation(r) => Len(r.cb) = 0

\* A batch whose ROLLBACK failed and a createTransaction whose BEGIN failed
\* have both called back
C19_Witness ==
  /\ Done(1) /\ ops[1].kind = "transaction"
  /\ ops[1].outcome = "rollback_error" /\ Len(ops[1].cb) = 1
  /\ Done(2) /\ ops[2].kind = "createTransaction"
  /\ ops[2].outcome = "begin_error" /\ Len(ops[2].cb) = 1

\* ---- statements and the connection they are issued on ----

Positions(r, ev) == {i \in 1..Len(r.log) : r.log[i].ev = ev}

\* C20: every statement a call issues goes to a connection that this call
\* acquired and whose release action the call has not invoked before; a call
\* acquires at most one connection and issues all its statements on it, and
\* while the call is running that connection is checked out.
C20_NoStatementAfterRelease ==
  \A o \in Ops :
    LET r == ops[o]
    IN  /\ Cardinality(Positions(r, "connect")) <= 1
        /\ \A i \in Positions(r, "issue") :
             /\ r.log[i].client # 0
             /\ r.log[i].client = r.client
             /\ \E j \in Positions(r, "connect") :
                  j < i /\ r.log[j].client = r.log[i].client
             /\ \A j \in Positions(r, "complete") :
                  r.log[j].client = r.log[i].client => i < j
        /\ (~Done(o) /\ Positions(r, "issue") # {}) => r.client \in CheckedOut

\* A batch ran BEGIN, a statement and ROLLBACK on its connection and released
\* it; a query then got the same connection and used it
C20_Witness ==
  /\ Done(1) /\ ops[1].kind = "transaction"
  /\ ops[1].outcome = "statement_error"
  /\ Cardinality(Positions(ops[1], "issue")) >= 3
  /\ Done(2) /\ ops[2].kind = "query" /\ ops[2].outcome = "success"
  /\ ops[2].client = ops[1].client
====
